---- MODULE Spec2Model ----
(***************************************************************************)
(* The metadata synchronisation and caching pipeline of the private media  *)
(* library: POST /api/openlist/refresh (src/unnamed/part_001), GET         *)
(* /api/openlist/list (src/src/app/api/openlist/list/route.ts), the        *)
(* OpenList client and the TMDB search (src/src/lib/openlist.client.ts).   *)
(*                                                                         *)
(* One root path.  Every `await` of a handler is a suspension point: the   *)
(* synchronous code between two awaits is one action.  JavaScript objects  *)
(* are held by reference: heap maps object ids to values, and cache and    *)
(* metaInfo hold ids, so that an alias is visible as equal ids.            *)
(***************************************************************************)
EXTENDS Integers, Sequences, FiniteSets, TLC

\* ------------------------------------------------------------- bounds
MaxRuns == 2        \* refresh runs in one behaviour
MaxTime == 1        \* Date.now() ranges over 0..MaxTime
MaxResults == 3     \* length of a TMDB result list
MaxFolders == 3     \* folders of a document that is paginated
MaxPage == 4        \* the page parameter ranges over -MaxPage..MaxPage
MaxPageSize == 3    \* the pageSize parameter ranges over 1..MaxPageSize

\* ------------------------------------------------------------- values
Names == {"A", "B"}
MediaTypes == {"movie", "tv", "person"}
Pages == {1}
PageSizes == {2}

NoRef == 0
ObjIds == {1, 2}

NoResult == [id |-> 0, media_type |-> "none"]

\* The value of a free heap slot.
NullObj ==
    [isArray |-> FALSE, hasFolders |-> FALSE, arrFolders |-> FALSE, folders |-> <<>>,
     last_refresh |-> 0]

\* The text of metainfo.json on the remote storage, by what JSON.parse makes of it.
Content(kind, hasFolders, folders, last_refresh) ==
    [kind |-> kind, hasFolders |-> hasFolders, folders |-> folders,
     last_refresh |-> last_refresh]

Missing == Content("missing", FALSE, <<>>, 0)

Range(s) == {s[i] : i \in 1 .. Len(s)}

\* Object.keys(folders)
Keys(folders) == {folders[i].name : i \in 1 .. Len(folders)}

\* Sequences over S without repetition, of length at most n.
InjSeqs(S, n) ==
    {s \in UNION {[1 .. k -> S] : k \in 0 .. n} :
        \A i, j \in 1 .. Len(s) : i # j => s[i] # s[j]}

\* A record as the pipeline writes it (part_001 lines 179-188).
FolderRecord(name, result, t) ==
    [name |-> name, tmdb_id |-> result.id, media_type |-> result.media_type,
     last_updated |-> t]

\* ------------------------------------------------- JSON.parse / stringify
\* JSON.parse(content): it throws on text that is no JSON, and yields null or
\* another falsy value, a truthy primitive, an array, or an object.  The
\* folders of an object are absent (or no object), a JSON array (kind
\* "object_af": typeof gives 'object' for it; the empty array stands for these),
\* or a mapping.
JSONParse(content) ==
    CASE content.kind = "garbage" -> [tag |-> "throw", obj |-> NullObj]
      [] content.kind = "falsy"   -> [tag |-> "null", obj |-> NullObj]
      [] content.kind = "prim"    -> [tag |-> "prim", obj |-> NullObj]
      [] content.kind = "array"   ->
             [tag |-> "obj",
              obj |-> [isArray |-> TRUE, hasFolders |-> FALSE, arrFolders |-> FALSE,
                       folders |-> <<>>,
                       last_refresh |-> 0]]
      [] content.kind = "object_af" ->
             [tag |-> "obj",
              obj |-> [isArray |-> FALSE, hasFolders |-> TRUE, arrFolders |-> TRUE,
                       folders |-> <<>>, last_refresh |-> content.last_refresh]]
      [] OTHER ->
             [tag |-> "obj",
              obj |-> [isArray |-> FALSE, hasFolders |-> content.hasFolders,
                       arrFolders |-> FALSE,
                       folders |-> IF content.hasFolders THEN content.folders ELSE <<>>,
                       last_refresh |-> content.last_refresh]]

\* JSON.stringify(metaInfo, null, 2): an array is written with its elements
\* only (its named properties are dropped): the document that is an array
\* loses folders and last_refresh, the folders that are an array lose the
\* records.
JSONStringify(obj) ==
    IF obj.isArray
    THEN Content("array", FALSE, <<>>, 0)
    ELSE IF obj.arrFolders
    THEN Content("object_af", TRUE, <<>>, obj.last_refresh)
    ELSE Content("object", obj.hasFolders,
                 IF obj.hasFolders THEN obj.folders ELSE <<>>, obj.last_refresh)

\* ------------------------------------------------------------ searchTMDB
\* What the TMDB endpoint answers to one multi search: the fetch rejects
\* (network error, timeout), a non-success status, a success whose body is no
\* JSON or has no results array, or a list of results.
StatusFailure == 503

NoResponse == [kind |-> "none", status |-> 0, results |-> <<>>]

ResultLists ==
    UNION {{[i \in 1 .. k |-> [id |-> i, media_type |-> m[i]]] :
                m \in [1 .. k -> MediaTypes]} : k \in 0 .. MaxResults}

ProviderResponses ==
    {[kind |-> "reject", status |-> 0, results |-> <<>>],
     [kind |-> "status", status |-> StatusFailure, results |-> <<>>],
     [kind |-> "status", status |-> 404, results |-> <<>>],
     [kind |-> "malformed", status |-> 200, results |-> <<>>]} \cup
    {[kind |-> "ok", status |-> 200, results |-> r] : r \in ResultLists}

\* The answers the refresh run is driven with: one for each way searchTMDB
\* can end (rejects, non-success status, no result, no movie or tv among the
\* results, a match behind a result of another media type).
RefreshResponses ==
    {[kind |-> "reject", status |-> 0, results |-> <<>>],
     [kind |-> "status", status |-> StatusFailure, results |-> <<>>],
     [kind |-> "ok", status |-> 200, results |-> <<>>],
     [kind |-> "ok", status |-> 200, results |-> <<[id |-> 1, media_type |-> "person"]>>],
     [kind |-> "ok", status |-> 200,
      results |-> <<[id |-> 1, media_type |-> "person"], [id |-> 2, media_type |-> "tv"]>>]}

\* The filter that lets films through only.
IsMedia_MovieOnly(item) == item.media_type = "movie"

IsMedia(item) == item.media_type = "movie" \/ item.media_type = "tv"

validResults(results) == SelectSeq(results, IsMedia)

searchTMDB(apiKey, response) ==
    IF ~apiKey THEN [code |-> 400, result |-> NoResult]
    ELSE IF response.kind = "reject" THEN [code |-> 500, result |-> NoResult]
    ELSE IF response.kind = "status" THEN [code |-> response.status, result |-> NoResult]
    ELSE IF response.kind = "malformed" THEN [code |-> 500, result |-> NoResult]
    ELSE IF Len(validResults(response.results)) = 0
         THEN [code |-> 404, result |-> NoResult]
         ELSE [code |-> 200, result |-> validResults(response.results)[1]]

\* ------------------------------------------------------------ the listing
\* listResponse.data.content: entries with distinct names.
Listings ==
    UNION {{[i \in 1 .. Len(n) |-> [name |-> n[i], is_dir |-> d[i]]] :
                d \in [1 .. Len(n) -> BOOLEAN]} :
           n \in InjSeqs(Names, Cardinality(Names))}

IsDir(item) == item.is_dir

\* The listing taken unfiltered.
Dirs_NoFilter(content) == content

\* listResponse.data.content.filter((item) => item.is_dir)
Dirs(content) == SelectSeq(content, IsDir)

\* ------------------------------------------------------- the list view
\* One element of allVideos (route.ts lines 156-168).
VideoOf(info) ==
    [id |-> info.name, folder |-> info.name, mediaType |-> info.media_type,
     lastUpdated |-> info.last_updated]

allVideos(folders) == [i \in 1 .. Len(folders) |-> VideoOf(folders[i])]

\* v goes ahead of the elements it compares equal to.
InsertDesc_TiesFirst(sorted, v) ==
    LET ahead == {i \in 1 .. Len(sorted) : sorted[i].lastUpdated - v.lastUpdated <= 0}
        k == IF ahead = {} THEN Len(sorted) + 1
             ELSE CHOOSE i \in ahead : \A j \in ahead : i <= j
    IN  SubSeq(sorted, 1, k - 1) \o <<v>> \o SubSeq(sorted, k, Len(sorted))

\* v goes behind every element that does not sort after it: the sort is stable.
InsertDesc(sorted, v) ==
    LET ahead == {i \in 1 .. Len(sorted) : sorted[i].lastUpdated - v.lastUpdated < 0}
        k == IF ahead = {} THEN Len(sorted) + 1
             ELSE CHOOSE i \in ahead : \A j \in ahead : i <= j
    IN  SubSeq(sorted, 1, k - 1) \o <<v>> \o SubSeq(sorted, k, Len(sorted))

\* allVideos.sort((a, b) => b.lastUpdated - a.lastUpdated)
RECURSIVE SortDesc(_)
SortDesc(videos) ==
    IF videos = <<>> THEN <<>>
    ELSE InsertDesc(SortDesc(SubSeq(videos, 1, Len(videos) - 1)), videos[Len(videos)])

Min(a, b) == IF a < b THEN a ELSE b
Max(a, b) == IF a > b THEN a ELSE b

\* Array.prototype.slice(start, end): a negative index counts from the end.
Slice(arr, start, end) ==
    LET n == Len(arr)
        k == IF start < 0 THEN Max(n + start, 0) ELSE Min(start, n)
        f == IF end < 0 THEN Max(n + end, 0) ELSE Min(end, n)
    IN  SubSeq(arr, k + 1, f)

\* The quotient rounded down.
CeilDiv_Floor(total, size) == total \div size

\* Math.ceil(total / pageSize), pageSize >= 1
CeilDiv(total, size) == (total + size - 1) \div size

EmptyList(error) ==
    [success |-> FALSE, error |-> error, list |-> <<>>, total |-> 0, totalPages |-> 0]

\* route.ts lines 155-185
ListPage(folders, p, ps) ==
    LET sorted == SortDesc(allVideos(folders))
        start == (p - 1) * ps
        end == start + ps
    IN  [success |-> TRUE, error |-> "", list |-> Slice(sorted, start, end),
         total |-> Len(sorted), totalPages |-> CeilDiv(Len(sorted), ps)]

\* ---------------------------------------------------------------- state
VARIABLES
    now,              \* Date.now()
    remote,           \* the text of <rootPath>/metainfo.json on the storage
    heap,             \* object id -> value of the MetaInfo object
    cache,            \* METAINFO cache entry of rootPath: an object id, or NoRef
    \* POST /api/openlist/refresh
    rpc,              \* the await the run is suspended at
    metaInfo,         \* object id
    content,          \* the response body being read (load)
    listResponse,     \* listResponse.data.content
    idx,              \* position of the for-of loop in folders
    newCount,
    errorCount,
    metainfoContent,  \* the serialised document handed to uploadFile
    result,           \* the JSON response of the run
    runs,             \* runs started
    \* GET /api/openlist/list
    lpc,
    page,
    pageSize,
    lcontent,
    lresp,            \* the JSON response of the last request
    \* searchTMDB called on its own
    tpc,
    tmdbKey,          \* apiKey is not empty
    tmdbResponse,     \* what the TMDB endpoint answers
    tmdbResult,       \* { code, result }
    \* history of the current run
    searchLog,        \* searchTMDB calls issued: <<[name, matched]>>
    pre,              \* cache entry and persisted text when the run started
    startFolders,     \* metaInfo.folders when the listing is requested
    loadOutcome,
    failReason,
    verifyOutcome,
    obs,              \* folders a list request read from the cache during the run
    prev,             \* summary of the run before the current one
    lastOk,           \* last_refresh, cached and persisted, when a run last succeeded
    unmatched         \* folders the run before searched without getting a match

rvars == <<rpc, metaInfo, content, listResponse, idx, newCount, errorCount,
           metainfoContent, result, runs>>
lvars == <<lpc, page, pageSize, lcontent, lresp>>
svars == <<tpc, tmdbKey, tmdbResponse, tmdbResult>>
hvars == <<searchLog, pre, startFolders, loadOutcome, failReason, verifyOutcome, obs, prev, lastOk, unmatched>>
vars == <<now, remote, heap, cache, rvars, lvars, svars, hvars>>

\* The MetaInfo cache of @/lib/openlist-cache, for the one root path: it
\* keeps the object it is given and hands out that same object.
getCachedMetaInfo == cache

\* setCachedMetaInfo(rootPath, metaInfo); an invalidateMetaInfoCache(rootPath)
\* just before it, in the same synchronous stretch, changes nothing more.
setCachedMetaInfo(ref) == cache' = ref

\* The cache entry by value.
CacheEntry ==
    IF cache = NoRef THEN [present |-> FALSE, doc |-> NullObj]
    ELSE [present |-> TRUE, doc |-> heap[cache]]

\* The keys of the persisted document.
PersistedKeys(c) == IF c.kind = "object" /\ c.hasFolders THEN Keys(c.folders) ELSE {}

InFlight == rpc \notin {"idle", "done", "failed"}

\* Date.now(): the clock never runs backwards; a step that does not read it
\* leaves now, the last value read, alone.
DateNow == now .. Min(now + 1, MaxTime)

\* The smallest object id that no root holds.
Alloc(roots) == CHOOSE i \in ObjIds \ roots : \A j \in ObjIds \ roots : i <= j

\* Objects no root holds are dropped.
Collect(h, roots) == [i \in ObjIds |-> IF i \in roots THEN h[i] ELSE NullObj]

\* { folders: {}, last_refresh: Date.now() }  (part_001 lines 114-117)
EmptyMetaInfo(t) ==
    [isArray |-> FALSE, hasFolders |-> TRUE, arrFolders |-> FALSE, folders |-> <<>>,
     last_refresh |-> t]

\* The repair done whether or not folders is valid.
Repair_Always(obj) ==
    [obj EXCEPT !.hasFolders = TRUE, !.arrFolders = FALSE, !.folders = <<>>]

\* if (!metaInfo.folders || typeof metaInfo.folders !== 'object') metaInfo.folders = {}
Repair(obj) ==
    IF obj.hasFolders THEN obj ELSE [obj EXCEPT !.hasFolders = TRUE, !.folders = <<>>]

\* metaInfo.folders[name] = record: a new key goes last, a key keeps its place.
SetFolder(folders, rec) ==
    IF rec.name \in Keys(folders)
    THEN [i \in 1 .. Len(folders) |-> IF folders[i].name = rec.name THEN rec ELSE folders[i]]
    ELSE Append(folders, rec)

\* --------------------------------------------------------------- Init
InitialRecord(name) ==
    [name |-> name, tmdb_id |-> 1, media_type |-> "movie", last_updated |-> 0]

InitialRemotes ==
    {Missing, Content("garbage", FALSE, <<>>, 0), Content("falsy", FALSE, <<>>, 0),
     Content("prim", FALSE, <<>>, 0), Content("array", FALSE, <<>>, 0),
     Content("object", FALSE, <<>>, 0), Content("object_af", TRUE, <<>>, 0)} \cup
    {Content("object", TRUE, [i \in 1 .. Len(n) |-> InitialRecord(n[i])], 0) :
        n \in {<<>>, <<"A">>, <<"B", "A">>}}

NoObs == [seen |-> FALSE, folders |-> <<>>]
NoPrev == [ok |-> FALSE, dirs |-> {}]
NoStamp == [some |-> FALSE, cached |-> 0, persisted |-> 0]

Init ==
    /\ now = 0
    /\ remote \in InitialRemotes
    /\ heap = [i \in ObjIds |-> NullObj]
    /\ cache = NoRef
    /\ rpc = "idle" /\ metaInfo = NoRef /\ content = Missing /\ listResponse = <<>>
    /\ idx = 0 /\ newCount = 0 /\ errorCount = 0 /\ metainfoContent = Missing
    /\ result = [success |-> FALSE, total |-> 0, new |-> 0, existing |-> 0,
                 errors |-> 0, last_refresh |-> 0]
    /\ runs = 0
    /\ lpc = "idle" /\ page = 1 /\ pageSize = 1 /\ lcontent = Missing
    /\ lresp = EmptyList("")
    /\ searchLog = <<>>
    /\ pre = [cache |-> [present |-> FALSE, doc |-> NullObj], remote |-> Missing]
    /\ startFolders = <<>> /\ loadOutcome = "none" /\ failReason = "none"
    /\ verifyOutcome = "none" /\ obs = NoObs /\ prev = NoPrev /\ lastOk = NoStamp
    /\ unmatched = {}
    /\ tpc = "idle" /\ tmdbKey = TRUE /\ tmdbResponse = NoResponse
    /\ tmdbResult = [code |-> 0, result |-> NoResult]

\* ------------------------------------------- POST /api/openlist/refresh
GetFileOutcomes == {"throw", "code", "no_url", "ok"}
FetchOutcomes == {"throw", "not_ok", "ok"}

\* Lines 114-132: metaInfo is the loaded object h[ref]; repair its folders and
\* call listDirectory.
ToListing(h, ref, outcome) ==
    /\ heap' = [h EXCEPT ![ref] = Repair(h[ref])]
    /\ metaInfo' = ref
    /\ startFolders' = Repair(h[ref]).folders
    /\ loadOutcome' = outcome
    /\ rpc' = "list"
    /\ failReason' = "none"

\* Lines 106-117: nothing was loaded, metaInfo is a new empty document.
Fallback(outcome) ==
    \E t \in DateNow :
        LET ref == Alloc({cache})
        IN  /\ now' = t
            /\ ToListing([heap EXCEPT ![ref] = EmptyMetaInfo(t)], ref, outcome)

\* The outer catch (lines 273-279) and the 500 of lines 134-139.
Fail(reason) ==
    /\ rpc' = "failed"
    /\ failReason' = reason

\* Lines 23-69: the cache is read; on a miss getFile is called.
RefreshStart ==
    /\ rpc \in {"idle", "done", "failed"}
    /\ runs < MaxRuns
    /\ runs' = runs + 1
    /\ content' = Missing /\ listResponse' = <<>> /\ idx' = 0
    /\ newCount' = 0 /\ errorCount' = 0 /\ metainfoContent' = Missing
    /\ result' = [success |-> FALSE, total |-> 0, new |-> 0, existing |-> 0,
                  errors |-> 0, last_refresh |-> 0]
    /\ searchLog' = <<>> /\ verifyOutcome' = "none" /\ obs' = NoObs
    /\ pre' = [cache |-> CacheEntry, remote |-> remote]
    /\ unmatched' = {searchLog[i].name :
                        i \in {j \in 1 .. Len(searchLog) : ~searchLog[j].matched}}
    /\ prev' = IF rpc = "done"
               THEN [ok |-> TRUE,
                     dirs |-> {listResponse[i].name : i \in {j \in 1 .. Len(listResponse) :
                                                                listResponse[j].is_dir}}]
               ELSE NoPrev
    /\ IF getCachedMetaInfo # NoRef
       THEN ToListing(Collect(heap, {cache}), getCachedMetaInfo, "cache")
       ELSE /\ heap' = Collect(heap, {})
            /\ metaInfo' = NoRef
            /\ startFolders' = <<>>
            /\ loadOutcome' = "none"
            /\ failReason' = "none"
            /\ rpc' = "load_get"
    /\ UNCHANGED <<now, remote, cache, lvars, lastOk>>
    /\ UNCHANGED svars

\* Lines 69-76: getFile answers.
LoadGetFile ==
    /\ rpc = "load_get"
    /\ \E o \in GetFileOutcomes :
          /\ remote.kind = "missing" => o \in {"throw", "code"}
          /\ CASE o = "ok" ->
                    /\ rpc' = "load_fetch"
                    /\ UNCHANGED <<now, heap, metaInfo, startFolders, loadOutcome,
                                   failReason>>
               [] o = "throw" -> Fallback("failed")
               [] o = "code" -> Fallback("failed")
               [] OTHER -> Fallback("failed")
    /\ UNCHANGED <<remote, cache, lvars, content, listResponse, idx, newCount,
                   errorCount, metainfoContent, result, runs, searchLog, pre,
                   verifyOutcome, obs, prev, lastOk, unmatched>>
    /\ UNCHANGED svars

\* Lines 76-93: the download answers.
LoadFetch ==
    /\ rpc = "load_fetch"
    /\ \E o \in FetchOutcomes :
          CASE o = "ok" ->
                 /\ rpc' = "load_text"
                 /\ content' = remote
                 /\ UNCHANGED <<now, heap, metaInfo, startFolders, loadOutcome,
                                failReason>>
            [] o = "throw" -> Fallback("failed") /\ UNCHANGED content
            [] OTHER -> Fallback("failed") /\ UNCHANGED content
    /\ UNCHANGED <<remote, cache, lvars, listResponse, idx, newCount,
                   errorCount, metainfoContent, result, runs, searchLog, pre,
                   verifyOutcome, obs, prev, lastOk, unmatched>>
    /\ UNCHANGED svars

\* Lines 93-132: the body is read and parsed.  A truthy primitive becomes
\* metaInfo, and metaInfo.folders = {} on it raises a TypeError that the outer
\* catch turns into the 500 response.
LoadText ==
    /\ rpc = "load_text"
    /\ LET parsed == JSONParse(content)
       IN  CASE parsed.tag = "throw" -> Fallback("failed")
             [] parsed.tag = "null" -> Fallback("failed")
             [] parsed.tag = "prim" ->
                   /\ Fail("load")
                   /\ loadOutcome' = "prim"
                   /\ UNCHANGED <<now, heap, metaInfo, startFolders>>
             [] OTHER ->
                   LET ref == Alloc({cache})
                   IN  /\ ToListing([heap EXCEPT ![ref] = parsed.obj], ref,
                                    IF parsed.obj.isArray THEN "array"
                                    ELSE IF parsed.obj.hasFolders THEN "ok"
                                    ELSE "no_folders")
                       /\ UNCHANGED now
    /\ content' = Missing
    /\ UNCHANGED <<remote, cache, lvars, listResponse, idx, newCount,
                   errorCount, metainfoContent, result, runs, searchLog, pre,
                   verifyOutcome, obs, prev, lastOk, unmatched>>
    /\ UNCHANGED svars

\* A "no match" answer taken for a match.
IsMatch_NoMatchToo(searchResult) == searchResult.code = 200 \/ searchResult.code = 404

\* if (searchResult.code === 200 && searchResult.result)  (line 176)
IsMatch(searchResult) == searchResult.code = 200 /\ searchResult.result # NoResult

\* The loop without its skip of the folders that have a record.
NextUnseen_NoSkip(folders, known, i) ==
    IF i <= Len(folders) THEN i ELSE Len(folders) + 1

\* The position of the first folder from i on that has no record: the loop
\* skips the others (lines 155-159).
NextUnseen(folders, known, i) ==
    LET unseen == {j \in i .. Len(folders) : folders[j].name \notin Keys(known)}
    IN  IF unseen = {} THEN Len(folders) + 1
        ELSE CHOOSE j \in unseen : \A k \in unseen : j <= k

\* The for-of loop from position i on, in heap h: up to the next searchTMDB
\* call, or, when the loop is over, lines 209-221: last_refresh is set on
\* metaInfo, it is serialised, and uploadFile is called.
Continue(h, folders, i) ==
    LET j == NextUnseen(folders, h[metaInfo].folders, i)
    IN  /\ idx' = j
        /\ IF j <= Len(folders)
           THEN /\ rpc' = "search"
                /\ heap' = h
                /\ UNCHANGED <<now, metainfoContent>>
           ELSE \E t \in DateNow :
                   LET stamped == [h EXCEPT ![metaInfo].last_refresh = t]
                   IN  /\ now' = t
                       /\ rpc' = "upload"
                       /\ heap' = stamped
                       /\ metainfoContent' = JSONStringify(stamped[metaInfo])

ListOutcomes == {"throw", "code", "ok"}

\* Lines 132-164: listDirectory answers.
ListDirectory ==
    /\ rpc = "list"
    /\ \E o \in ListOutcomes :
          IF o = "ok"
          THEN \E entries \in Listings :
                  /\ listResponse' = entries
                  /\ Continue(heap, Dirs(entries), 1)
                  /\ UNCHANGED failReason
          ELSE /\ Fail("list")
               /\ UNCHANGED <<now, listResponse, idx, heap, metainfoContent>>
    /\ UNCHANGED <<remote, cache, lvars, metaInfo, content, newCount, errorCount,
                   result, runs, searchLog, pre, startFolders, loadOutcome,
                   verifyOutcome, obs, prev, lastOk, unmatched>>
    /\ UNCHANGED svars

\* The loop without its timer: the next entry is taken up as soon as
\* searchTMDB has answered.
Search_NoDelay ==
    /\ rpc = "search"
    /\ \E response \in RefreshResponses :
          LET folder == Dirs(listResponse)[idx]
              searchResult == searchTMDB(TRUE, response)
              h == IF IsMatch(searchResult)
                   THEN [heap EXCEPT ![metaInfo].folders =
                            SetFolder(@, FolderRecord(folder.name, searchResult.result, now))]
                   ELSE heap
          IN  /\ searchLog' = Append(searchLog, [name |-> folder.name,
                                                 matched |-> searchResult.code = 200])
              /\ newCount' = IF IsMatch(searchResult) THEN newCount + 1 ELSE newCount
              /\ errorCount' = IF IsMatch(searchResult) THEN errorCount ELSE errorCount + 1
              /\ Continue(h, Dirs(listResponse), idx + 1)
    /\ UNCHANGED <<remote, cache, lvars, metaInfo, content, listResponse,
                   result, runs, pre, startFolders, loadOutcome,
                   failReason, verifyOutcome, obs, prev, lastOk, unmatched>>
    /\ UNCHANGED svars

\* Lines 164-202: searchTMDB answers; a match is written into metaInfo.folders,
\* and the 300 ms timer is started.
Search ==
    /\ rpc = "search"
    /\ \E response \in RefreshResponses :
          LET folder == Dirs(listResponse)[idx]
              searchResult == searchTMDB(TRUE, response)
          IN  /\ searchLog' = Append(searchLog, [name |-> folder.name,
                                                 matched |-> searchResult.code = 200])
              /\ IF IsMatch(searchResult)
                 THEN \E t \in DateNow :
                         /\ now' = t
                         /\ heap' = [heap EXCEPT ![metaInfo].folders =
                                        SetFolder(@, FolderRecord(folder.name,
                                                                  searchResult.result, t))]
                         /\ newCount' = newCount + 1
                         /\ UNCHANGED errorCount
                 ELSE /\ errorCount' = errorCount + 1
                      /\ UNCHANGED <<now, heap, newCount>>
    /\ rpc' = "delay"
    /\ UNCHANGED <<remote, cache, lvars, metaInfo, content, listResponse, idx,
                   metainfoContent, result, runs, pre, startFolders, loadOutcome,
                   failReason, verifyOutcome, obs, prev, lastOk, unmatched>>
    /\ UNCHANGED svars

\* The loop that stays at its entry when the timer has fired.
Delay_NoAdvance ==
    /\ rpc = "delay"
    /\ Continue(heap, Dirs(listResponse), idx)
    /\ UNCHANGED <<remote, cache, lvars, metaInfo, content, listResponse,
                   newCount, errorCount, result, runs, hvars>>
    /\ UNCHANGED svars

\* Line 202 on: the timer fires and the loop goes on.
Delay ==
    /\ rpc = "delay"
    /\ Continue(heap, Dirs(listResponse), idx + 1)
    /\ UNCHANGED <<remote, cache, lvars, metaInfo, content, listResponse,
                   newCount, errorCount, result, runs, hvars>>
    /\ UNCHANGED svars

UploadOutcomes == {"ok", "fail"}

\* Lines 221-227 and OpenListClient.uploadFile: the PUT answers.
Upload ==
    /\ rpc = "upload"
    /\ \E o \in UploadOutcomes :
          IF o = "ok"
          THEN /\ remote' = metainfoContent
               /\ rpc' = "verify_get"
               /\ UNCHANGED failReason
          ELSE /\ Fail("upload")
               /\ UNCHANGED remote
    /\ UNCHANGED <<now, heap, cache, lvars, metaInfo, content, listResponse, idx,
                   newCount, errorCount, metainfoContent, result, runs, searchLog,
                   pre, startFolders, loadOutcome, verifyOutcome, obs, prev, lastOk, unmatched>>
    /\ UNCHANGED svars

\* A failed read-back thrown to the outer catch.
Commit_VerifyFatal(outcome) ==
    IF outcome = "ok"
    THEN /\ cache' = metaInfo
         /\ heap' = [i \in {1, 2} |-> IF i = metaInfo THEN heap[i]
                                      ELSE [isArray |-> FALSE, hasFolders |-> FALSE,
                                            arrFolders |-> FALSE,
                                            folders |-> <<>>, last_refresh |-> 0]]
         /\ verifyOutcome' = outcome
         /\ rpc' = "save"
    ELSE /\ rpc' = "failed"
         /\ verifyOutcome' = outcome
         /\ UNCHANGED <<cache, heap>>

\* Lines 255-263: the cache entry is dropped and set to metaInfo, and
\* saveAdminConfig is called.
Commit(outcome) ==
    /\ setCachedMetaInfo(metaInfo)
    /\ heap' = Collect(heap, {metaInfo})
    /\ verifyOutcome' = outcome
    /\ rpc' = "save"

\* Lines 227-230: the read-back getFile answers.
VerifyGetFile ==
    /\ rpc = "verify_get"
    /\ \E o \in GetFileOutcomes :
          IF o = "ok"
          THEN /\ rpc' = "verify_fetch"
               /\ UNCHANGED <<cache, heap, verifyOutcome>>
          ELSE Commit("failed")
    /\ UNCHANGED <<now, remote, lvars, metaInfo, content, listResponse, idx, newCount,
                   errorCount, metainfoContent, result, runs, searchLog, pre,
                   startFolders, loadOutcome, failReason, obs, prev, lastOk, unmatched>>
    /\ UNCHANGED svars

\* Lines 230-237: the read-back download answers (its status is not looked at:
\* the body of a failed download is an error page).
VerifyFetch ==
    /\ rpc = "verify_fetch"
    /\ \E o \in FetchOutcomes :
          CASE o = "ok" ->
                 /\ content' = remote
                 /\ rpc' = "verify_text"
                 /\ UNCHANGED <<cache, heap, verifyOutcome>>
            [] o = "not_ok" ->
                 /\ content' = Content("garbage", FALSE, <<>>, 0)
                 /\ rpc' = "verify_text"
                 /\ UNCHANGED <<cache, heap, verifyOutcome>>
            [] OTHER -> Commit("failed") /\ UNCHANGED content
    /\ UNCHANGED <<now, remote, lvars, metaInfo, listResponse, idx, newCount,
                   errorCount, metainfoContent, result, runs, searchLog, pre,
                   startFolders, loadOutcome, failReason, obs, prev, lastOk, unmatched>>
    /\ UNCHANGED svars

\* Lines 237-263: the read-back body is parsed; whatever comes of it, the
\* cache is updated.
VerifyText ==
    /\ rpc = "verify_text"
    /\ Commit(IF JSONParse(content).tag = "obj" THEN "ok" ELSE "failed")
    /\ content' = Missing
    /\ UNCHANGED <<now, remote, lvars, metaInfo, listResponse, idx, newCount,
                   errorCount, metainfoContent, result, runs, searchLog, pre,
                   startFolders, loadOutcome, failReason, obs, prev, lastOk, unmatched>>
    /\ UNCHANGED svars

SaveOutcomes == {"ok", "throw"}

\* Lines 263-272: saveAdminConfig answers and the summary is returned.
SaveAdminConfig ==
    /\ rpc = "save"
    /\ \E o \in SaveOutcomes :
          IF o = "ok"
          THEN /\ rpc' = "done"
               /\ result' = [success |-> TRUE,
                             total |-> Len(Dirs(listResponse)),
                             new |-> newCount,
                             existing |-> Len(heap[metaInfo].folders) - newCount,
                             errors |-> errorCount,
                             last_refresh |-> heap[metaInfo].last_refresh]
               /\ lastOk' = [some |-> TRUE, cached |-> heap[cache].last_refresh,
                              persisted |-> remote.last_refresh]
               /\ UNCHANGED failReason
          ELSE /\ Fail("save")
               /\ UNCHANGED <<result, lastOk>>
    /\ UNCHANGED <<now, remote, heap, cache, lvars, metaInfo, content, listResponse,
                   idx, newCount, errorCount, metainfoContent, runs, searchLog, pre,
                   startFolders, loadOutcome, verifyOutcome, obs, prev, unmatched>>
    /\ UNCHANGED svars

\* ---------------------------------------------- GET /api/openlist/list
\* Lines 118-129: the fallback load failed.
ListFailed(error) ==
    /\ lresp' = EmptyList(error)
    /\ lpc' = "done"

\* Lines 21-58, and 132-185 on a cache hit: page and pageSize are parsed and the
\* cache is read; a cached document is answered from at once.
ListRequest(P, PS) ==
    /\ lpc \in {"idle", "done"}
    /\ \E p \in P, ps \in PS :
          /\ page' = p
          /\ pageSize' = ps
          /\ IF getCachedMetaInfo # NoRef
             THEN /\ lpc' = "done"
                  /\ lresp' = IF heap[cache].hasFolders
                              THEN ListPage(heap[cache].folders, p, ps)
                              ELSE EmptyList("invalid")
                  /\ obs' = IF InFlight /\ heap[cache].folders # pre.cache.doc.folders
                            THEN [seen |-> TRUE, folders |-> heap[cache].folders]
                            ELSE obs
             ELSE /\ lpc' = "get"
                  /\ lresp' = EmptyList("")
                  /\ UNCHANGED obs
    /\ UNCHANGED <<now, remote, heap, cache, rvars, lcontent, searchLog, pre,
                   startFolders, loadOutcome, failReason, verifyOutcome, prev, lastOk, unmatched>>
    /\ UNCHANGED svars

\* The request that does not look at the cache.
ListStart_AlwaysLoad ==
    /\ lpc \in {"idle", "done"}
    /\ \E p \in Pages, ps \in PageSizes :
          /\ page' = p
          /\ pageSize' = ps
          /\ lpc' = "get"
          /\ lresp' = EmptyList("")
    /\ UNCHANGED <<now, remote, heap, cache, rvars, lcontent, hvars>>
    /\ UNCHANGED svars

ListStart == ListRequest(Pages, PageSizes)

\* Lines 58-67 and 110-117: getFile answers.
ListGetFile ==
    /\ lpc = "get"
    /\ \E o \in GetFileOutcomes :
          /\ remote.kind = "missing" => o \in {"throw", "code"}
          /\ IF o = "ok"
             THEN lpc' = "fetch" /\ UNCHANGED lresp
             ELSE ListFailed("read_failed")
    /\ UNCHANGED <<now, remote, heap, cache, rvars, page, pageSize, lcontent, hvars>>
    /\ UNCHANGED svars

\* Lines 67-83: the download answers.
ListFetch ==
    /\ lpc = "fetch"
    /\ \E o \in FetchOutcomes :
          IF o = "ok"
          THEN /\ lpc' = "text"
               /\ lcontent' = remote
               /\ UNCHANGED lresp
          ELSE /\ ListFailed("read_failed")
               /\ UNCHANGED lcontent
    /\ UNCHANGED <<now, remote, heap, cache, rvars, page, pageSize, hvars>>
    /\ UNCHANGED svars

\* Lines 83-185: the body is read, parsed and validated; a valid document is
\* put into the cache and answered from.
ListText ==
    /\ lpc = "text"
    /\ LET parsed == JSONParse(lcontent)
       IN  IF parsed.tag = "obj" /\ parsed.obj.hasFolders
           THEN LET ref == Alloc(IF metaInfo # NoRef THEN {metaInfo} ELSE {})
                IN  /\ heap' = Collect([heap EXCEPT ![ref] = parsed.obj],
                                       {ref} \cup (IF metaInfo # NoRef THEN {metaInfo}
                                                   ELSE {}))
                    /\ setCachedMetaInfo(ref)
                    /\ lresp' = ListPage(parsed.obj.folders, page, pageSize)
                    /\ lpc' = "done"
           ELSE /\ ListFailed("read_failed")
                /\ UNCHANGED <<heap, cache>>
    /\ lcontent' = Missing
    /\ UNCHANGED <<now, remote, rvars, page, pageSize, searchLog, pre, startFolders,
                   loadOutcome, failReason, verifyOutcome, obs, prev, lastOk, unmatched>>
    /\ UNCHANGED svars

Next ==
    \/ RefreshStart \/ LoadGetFile \/ LoadFetch \/ LoadText \/ ListDirectory
    \/ Search \/ Delay \/ Upload \/ VerifyGetFile \/ VerifyFetch \/ VerifyText
    \/ SaveAdminConfig
    \/ ListStart \/ ListGetFile \/ ListFetch \/ ListText

Spec == Init /\ [][Next]_vars

\* ------------------------------------------------- a run to its end
\* Every call the run awaits returns or fails in the end: each step that
\* resumes the run is taken at some time.  Nothing says that a request comes.
Resumes ==
    /\ WF_vars(LoadGetFile) /\ WF_vars(LoadFetch) /\ WF_vars(LoadText)
    /\ WF_vars(ListDirectory) /\ WF_vars(Search) /\ WF_vars(Delay)
    /\ WF_vars(Upload) /\ WF_vars(VerifyGetFile) /\ WF_vars(VerifyFetch)
    /\ WF_vars(VerifyText) /\ WF_vars(SaveAdminConfig)

\* The runs and the list requests of Spec, from one persisted document.
InitLive ==
    /\ Init
    /\ remote = Content("object", TRUE, <<InitialRecord("A")>>, 0)

SpecLive == InitLive /\ [][Next]_vars /\ Resumes

\* ------------------------------------------------ searchTMDB on its own
\* One call of searchTMDB after the other, over every answer of the endpoint
\* within the bounds, with and without an API key.
ApiKeys == BOOLEAN

InitSearch ==
    /\ Init
    /\ remote = Missing

\* Lines 176-200: the call, up to the await of fetch.
SearchCall ==
    /\ tpc \in {"idle", "done"}
    /\ \E key \in ApiKeys, response \in ProviderResponses :
          /\ tmdbKey' = key
          /\ tmdbResponse' = response
    /\ tmdbResult' = [code |-> 0, result |-> NoResult]
    /\ tpc' = "fetch"
    /\ UNCHANGED <<now, remote, heap, cache, rvars, lvars, hvars>>

\* Lines 182-225: the call returns.
SearchReturn ==
    /\ tpc = "fetch"
    /\ tmdbResult' = searchTMDB(tmdbKey, tmdbResponse)
    /\ tpc' = "done"
    /\ UNCHANGED <<now, remote, heap, cache, rvars, lvars, hvars, tmdbKey, tmdbResponse>>

NextSearch == SearchCall \/ SearchReturn

SpecSearch == InitSearch /\ [][NextSearch]_vars

\* ------------------------------------ pagination of a cached document
\* GET /api/openlist/list on a warm cache, over every document of up to
\* MaxFolders records and every integer page and pageSize >= 1 in the bounds.
PageNames == {"A", "B", "C", "D"}

PageDocs ==
    UNION {{[i \in 1 .. Len(n) |->
                [name |-> n[i], tmdb_id |-> 1, media_type |-> "movie",
                 last_updated |-> t[i]]] :
              t \in [1 .. Len(n) -> 0 .. MaxTime]} :
           n \in InjSeqs(PageNames, MaxFolders)}

PageInputs == (0 - MaxPage) .. MaxPage
PageSizeInputs == 1 .. MaxPageSize

InitList ==
    /\ now = MaxTime
    /\ \E folders \in PageDocs :
          LET doc == [isArray |-> FALSE, hasFolders |-> TRUE, arrFolders |-> FALSE,
                      folders |-> folders,
                      last_refresh |-> MaxTime]
          IN  /\ heap = [i \in ObjIds |-> IF i = 1 THEN doc ELSE NullObj]
              /\ remote = JSONStringify(doc)
    /\ cache = 1
    /\ rpc = "idle" /\ metaInfo = NoRef /\ content = Missing /\ listResponse = <<>>
    /\ idx = 0 /\ newCount = 0 /\ errorCount = 0 /\ metainfoContent = Missing
    /\ result = [success |-> FALSE, total |-> 0, new |-> 0, existing |-> 0,
                 errors |-> 0, last_refresh |-> 0]
    /\ runs = 0
    /\ lpc = "idle" /\ page = 1 /\ pageSize = 1 /\ lcontent = Missing
    /\ lresp = EmptyList("")
    /\ searchLog = <<>>
    /\ pre = [cache |-> [present |-> FALSE, doc |-> NullObj], remote |-> Missing]
    /\ startFolders = <<>> /\ loadOutcome = "none" /\ failReason = "none"
    /\ verifyOutcome = "none" /\ obs = NoObs /\ prev = NoPrev /\ lastOk = NoStamp
    /\ unmatched = {}
    /\ tpc = "idle" /\ tmdbKey = TRUE /\ tmdbResponse = NoResponse
    /\ tmdbResult = [code |-> 0, result |-> NoResult]

ListCached == ListRequest(PageInputs, PageSizeInputs)

NextList == ListCached

SpecList == InitList /\ [][NextList]_vars

\* ===================================================================
\* Properties
\* ===================================================================
VerifyPcs == {"verify_get", "verify_fetch", "verify_text"}

\* The cache was set by the run (lines 255-257).
Committed == rpc \in {"save", "done"} \/ (rpc = "failed" /\ failReason = "save")

\* The for-of loop is over.
LoopOver ==
    \/ rpc \in {"upload", "save", "done"} \cup VerifyPcs
    \/ rpc = "failed" /\ failReason \in {"upload", "save"}

RunEnded == rpc \in {"done", "failed"}

PersistedFolders(c) == IF c.kind = "object" /\ c.hasFolders THEN c.folders ELSE <<>>

DirNames(entries) == {entries[i].name : i \in {j \in 1 .. Len(entries) : entries[j].is_dir}}

LogNames == [i \in 1 .. Len(searchLog) |-> searchLog[i].name]

MatchedNames == {searchLog[i].name : i \in {j \in 1 .. Len(searchLog) : searchLog[j].matched}}

\* The run left the cache entry as it found it: the document it found there
\* (which is metaInfo) has the content it had and there is an entry, or, when
\* it found none, its own document is not the entry.  (A list request whose
\* load began on a cold cache may replace the entry by what it loaded.)
CacheAsBefore ==
    IF pre.cache.present
    THEN cache # NoRef /\ heap[metaInfo] = pre.cache.doc
    ELSE cache # metaInfo

\* C1 (atomic visibility): the folders a list request read from the cache
\* while a refresh run was in flight are those of the document from before the
\* run (cached or persisted) or those of the document the run committed.
C1_AtomicVisibility ==
    (obs.seen /\ RunEnded) =>
        \/ obs.folders \in {pre.cache.doc.folders, PersistedFolders(pre.remote)}
        \/ Committed /\ obs.folders = heap[metaInfo].folders

\* C2: when the upload fails the run is reported failed and the cache entry
\* is what it was before the run started.
C2_UploadFailureLeavesCache ==
    (rpc = "failed" /\ failReason = "upload") => CacheAsBefore

\* The directories of the listing that have no record when the loop starts,
\* in listing order.
UnseenNames ==
    LET Unseen(item) == item.is_dir /\ item.name \notin Keys(startFolders)
        unseen == SelectSeq(listResponse, Unseen)
    IN  [i \in 1 .. Len(unseen) |-> unseen[i].name]

\* The searchTMDB calls issued so far, the outstanding one included.
Issued ==
    LogNames \o (IF rpc = "search" THEN <<Dirs(listResponse)[idx].name>> ELSE <<>>)

\* The second of two consecutive successful runs, whose listing has no
\* directory that the listing of the first had not.
SecondRunNoGain == rpc = "done" /\ prev.ok /\ DirNames(listResponse) \subseteq prev.dirs

FoldersUnchanged ==
    /\ heap[metaInfo].folders = pre.cache.doc.folders
    /\ heap[metaInfo].hasFolders = pre.cache.doc.hasFolders
    /\ heap[metaInfo].isArray = pre.cache.doc.isArray

\* C3 as stated (idempotent enrichment): the second of two consecutive
\* successful runs with no new remote folders in between issues no search call
\* and leaves the folders mapping unchanged.
C3_IdempotentAsStated ==
    SecondRunNoGain => (searchLog = <<>> /\ pre.cache.present /\ FoldersUnchanged)

\* C3 amended: the same, for a second run in which every listed directory has
\* a record in the document the run starts from.
C3_IdempotentEnrichment ==
    (SecondRunNoGain /\ DirNames(listResponse) \subseteq Keys(startFolders)) =>
        (searchLog = <<>> /\ pre.cache.present /\ FoldersUnchanged)

C3_Witness ==
    /\ SecondRunNoGain
    /\ DirNames(listResponse) = Names
    /\ Keys(startFolders) = Names
    /\ result.last_refresh # pre.cache.doc.last_refresh

\* C4: the keys of the persisted document after a successful run include the
\* keys of the persisted document before that run.
C4_NeverRemovesKeys ==
    rpc = "done" => PersistedKeys(pre.remote) \subseteq PersistedKeys(remote)

\* C5: no search call is issued for a folder name that has a record in the
\* persisted document.
C5_NeverRequeried ==
    rpc = "search" => Dirs(listResponse)[idx].name \notin PersistedKeys(remote)

\* C6 (order preservation): the search calls of a run are, in listing order,
\* the directories of the listing that had no record; a non-directory entry is
\* never searched.
C6_OrderPreservation ==
    /\ Len(Issued) <= Len(UnseenNames)
    /\ Issued = SubSeq(UnseenNames, 1, Len(Issued))
    /\ LoopOver => Issued = UnseenNames
    /\ \A i \in 1 .. Len(listResponse) :
          ~listResponse[i].is_dir => listResponse[i].name \notin Range(Issued)

C6_Witness ==
    /\ rpc = "upload"
    /\ LogNames = <<"B", "A">>

\* C7 (non-fatal search failure): whatever the searches answer the loop runs to
\* its end; then new + errors is the number of unseen directories, folders is
\* the mapping from before the run followed by a record for exactly the
\* matched names, and the summary has existing = the size of the mapping
\* before the run and total = the number of directories listed.
C7_SearchFailureNonFatal ==
    /\ LoopOver =>
          /\ newCount + errorCount = Len(UnseenNames)
          /\ LogNames = UnseenNames
          /\ newCount = Cardinality(MatchedNames)
          /\ Keys(heap[metaInfo].folders) = Keys(startFolders) \cup MatchedNames
          /\ Len(heap[metaInfo].folders) = Len(startFolders) + newCount
          /\ SubSeq(heap[metaInfo].folders, 1, Len(startFolders)) = startFolders
    /\ rpc = "done" =>
          /\ result.success
          /\ result.new + result.errors = Len(UnseenNames)
          /\ result.existing = Len(startFolders)
          /\ result.total = Cardinality(DirNames(listResponse))

C7_Witness ==
    /\ rpc = "done"
    /\ result.new = 1 /\ result.errors = 1 /\ result.existing = 0

\* C8 (degradation on a failed Load): a run that found the cache cold and
\* whose Load step failed does not fail for it, and when every search matched
\* the document it uploads has exactly the listed directories as keys.
C8_LoadDegrades ==
    (~pre.cache.present /\ loadOutcome \in {"failed", "prim"}) =>
        /\ ~(rpc = "failed" /\ failReason = "load")
        /\ (rpc \in VerifyPcs /\ errorCount = 0) =>
               PersistedKeys(remote) = DirNames(listResponse)

\* C9: a failed listing ends the run as failed with no search call issued, no
\* upload made and the cache entry as the run found it.
C9_ListFailureSideEffectFree ==
    (rpc = "failed" /\ failReason = "list") =>
        /\ searchLog = <<>>
        /\ newCount = 0 /\ errorCount = 0
        /\ metainfoContent = Missing
        /\ remote = pre.remote
        /\ CacheAsBefore

C9_Witness ==
    /\ rpc = "failed" /\ failReason = "list"
    /\ pre.cache.present
    /\ pre.cache.doc.folders # <<>>

\* C10 (verification is non-fatal): every step that ends the read-back,
\* however it ends, puts metaInfo into the cache unchanged, leaves the
\* persisted text and the counts alone and goes on to saveAdminConfig.
C10_VerifyNonFatal ==
    [][(rpc \in VerifyPcs /\ rpc' \notin VerifyPcs) =>
          /\ rpc' = "save"
          /\ cache' = metaInfo
          /\ heap'[cache'] = heap[metaInfo]
          /\ remote' = remote
          /\ UNCHANGED <<metaInfo, newCount, errorCount, listResponse, failReason>>]_vars

C10_Witness ==
    /\ rpc = "done"
    /\ verifyOutcome = "failed"
    /\ result.success
    /\ cache = metaInfo

\* C11: a run that is reported failed is one whose listing call or upload
\* call failed; a run that has uploaded its document and put it into the cache
\* is not reported failed.
C11_FailedOnlyFromListOrUpload ==
    rpc = "failed" => failReason \in {"list", "upload"}

\* C12 (lastRefresh is monotone): when a run succeeds, last_refresh of the
\* cached document and of the persisted document are not below what they were
\* when an earlier run succeeded.
C12_LastRefreshMonotone ==
    [][(rpc = "save" /\ rpc' = "done" /\ lastOk.some) =>
          /\ lastOk'.cached >= lastOk.cached
          /\ lastOk'.persisted >= lastOk.persisted]_vars

\* ---------------------------------------------- pagination (SpecList)
\* The record sequence that list paginates, and the document's size.
Sorted == SortDesc(allVideos(heap[cache].folders))

FolderCount == Len(heap[cache].folders)

\* ceil(n / pageSize): the least k with k * pageSize >= n.
LastPage == CHOOSE k \in 0 .. FolderCount :
                /\ k * pageSize >= FolderCount
                /\ \A j \in 0 .. k - 1 : j * pageSize < FolderCount

RECURSIVE PagesFrom(_)
PagesFrom(p) ==
    IF p > LastPage THEN <<>>
    ELSE ListPage(heap[cache].folders, p, pageSize).list \o PagesFrom(p + 1)

\* C13 (pagination correctness): for a page in 1..ceil(n/pageSize) the
\* response has total = n, totalPages = ceil(n/pageSize) and the records at
\* positions (page-1)*pageSize .. min(page*pageSize, n)-1 of the sorted
\* sequence; the pages 1..totalPages concatenated are the sorted sequence,
\* which holds every record of the document exactly once.
C13_PaginationCorrect ==
    (lpc = "done" /\ page \in 1 .. LastPage) =>
        /\ lresp.success
        /\ lresp.total = FolderCount
        /\ lresp.totalPages = LastPage
        /\ lresp.list = SubSeq(Sorted, (page - 1) * pageSize + 1,
                               Min(page * pageSize, FolderCount))
        /\ PagesFrom(1) = Sorted
        /\ Len(Sorted) = FolderCount
        /\ \A i \in 1 .. FolderCount :
              Cardinality({j \in 1 .. FolderCount :
                              Sorted[j] = VideoOf(heap[cache].folders[i])}) = 1

C13_Witness ==
    /\ lpc = "done"
    /\ FolderCount = 3 /\ pageSize = 2 /\ page = 2
    /\ Len(lresp.list) = 1 /\ lresp.totalPages = 2

\* C14 (out-of-range pages): for an integer page outside 1..ceil(n/pageSize)
\* the response is a success with an empty list and total = n.
C14_OutOfRangeEmpty ==
    (lpc = "done" /\ page \notin 1 .. LastPage) =>
        /\ lresp.success
        /\ lresp.list = <<>>
        /\ lresp.total = FolderCount

\* The place of a record in the document (key order of folders).
KeyIndex(id) == CHOOSE i \in 1 .. FolderCount : heap[cache].folders[i].name = id

SortedByLastUpdated(list) ==
    \A i, j \in 1 .. Len(list) :
        i < j =>
            /\ list[i].lastUpdated >= list[j].lastUpdated
            /\ list[i].lastUpdated = list[j].lastUpdated =>
                   KeyIndex(list[i].id) < KeyIndex(list[j].id)

\* C15 (sort order): the sequence that list paginates, and every page of it,
\* has lastUpdated descending, and records of equal lastUpdated stand in the
\* key order of the document, the same in every response.
C15_SortedDescending ==
    lpc = "done" =>
        /\ SortedByLastUpdated(Sorted)
        /\ SortedByLastUpdated(lresp.list)
        /\ (page = 1 /\ pageSize >= FolderCount) => lresp.list = Sorted

C15_Witness ==
    /\ lpc = "done" /\ page = 1 /\ Len(lresp.list) = 3
    /\ lresp.list[1].lastUpdated > lresp.list[2].lastUpdated
    /\ lresp.list[2].lastUpdated = lresp.list[3].lastUpdated
    /\ heap[cache].folders[1].name = lresp.list[2].id
    /\ heap[cache].folders[3].name = lresp.list[3].id

\* ------------------------------------------------------ the list request
\* The fallback load of a list request ends with this step.
LoadEnds == lpc \in {"get", "fetch", "text"} /\ lpc' = "done"

\* The text read is that of a document: an object whose folders is a mapping.
LoadedDocument ==
    /\ lpc = "text"
    /\ JSONParse(lcontent).tag = "obj"
    /\ ~JSONParse(lcontent).obj.isArray
    /\ JSONParse(lcontent).obj.hasFolders
    /\ ~JSONParse(lcontent).obj.arrFolders

\* C16 (list degrades on a cold cache): when the fallback load fails, or
\* yields a value whose folders is missing or no mapping, the response is the
\* non-failing empty result and the request leaves the cache entry alone; when
\* it yields a document, that document becomes the cache entry and the
\* response is derived from it.
C16_ListDegrades ==
    [][LoadEnds =>
          IF LoadedDocument
          THEN /\ cache' # NoRef
               /\ heap'[cache'] = JSONParse(lcontent).obj
               /\ lresp' = ListPage(JSONParse(lcontent).obj.folders, page, pageSize)
          ELSE /\ lresp'.list = <<>> /\ lresp'.total = 0
               /\ UNCHANGED <<cache, heap>>]_vars

\* C17 (commit postcondition): at the step that completes a run successfully
\* the cache entry is present, and its folders and last_refresh are those of
\* the document the run uploaded.
C17_CommitPostcondition ==
    [][(rpc = "save" /\ rpc' = "done") =>
          (/\ cache' # NoRef
           /\ heap'[cache'].folders = PersistedFolders(metainfoContent)
           /\ heap'[cache'].last_refresh = metainfoContent.last_refresh)]_vars

\* A list request is answered by this step.
ListAnswers == lpc' = "done" /\ rpc' = rpc /\ lvars' # lvars

\* C18 (no data older than the last commit): once a run has committed its
\* document, and until another run starts, every list response is derived from
\* that document, also the response of a request whose fallback load began
\* before the upload (the empty result of a request whose load failed shows
\* no document at all).
C18_NothingOlderThanCommit ==
    [][(Committed /\ ListAnswers /\ lresp'.success) =>
          lresp' = ListPage(heap[metaInfo].folders, page', pageSize')]_vars

\* C19 (sequential, throttled enrichment): a search call is answered only
\* while it is the one outstanding call, the timer is started with its answer,
\* and the loop takes up its next entry (or leaves for the upload) only from
\* the listing or when the timer has fired.
C19_SequentialThrottled ==
    [][/\ Len(searchLog') > Len(searchLog) =>
              /\ rpc = "search" /\ rpc' = "delay"
              /\ idx' = idx
              /\ Len(searchLog') = Len(searchLog) + 1
       /\ (idx' # idx /\ rpc' \in {"search", "upload"}) => rpc \in {"list", "delay"}
       /\ (rpc = "delay" /\ rpc' # rpc) =>
              /\ rpc' \in {"search", "upload"}
              /\ idx' > idx
              /\ searchLog' = searchLog]_vars

C19_Witness ==
    /\ rpc = "search"
    /\ idx = 2
    /\ Len(searchLog) = 1

\* A step of a list request.
ListStep == lvars' # lvars

\* C20 (list is read-only): a step of a list request leaves the persisted
\* text alone, issues no listing, search or upload (the run's position,
\* listing, search log and upload text are as they were); on a cache hit the
\* request is answered at once, with no remote call, and the cache entry and
\* its document are unchanged.
C20_ListReadOnly ==
    [][ListStep =>
          /\ remote' = remote
          /\ UNCHANGED <<rvars, searchLog>>
          /\ (lpc \in {"idle", "done"} /\ cache # NoRef) =>
                 /\ lpc' = "done"
                 /\ UNCHANGED <<cache, heap>>
                 /\ lresp'.list = ListPage(heap[cache].folders, page', pageSize').list]_vars

C20_Witness ==
    /\ lpc = "done"
    /\ cache # NoRef
    /\ lresp.success /\ lresp.total = 2
    /\ rpc = "delay"
    /\ lcontent = Missing

\* ------------------------------------------------ searchTMDB (SpecSearch)
\* The positions of the results whose media type is movie or tv.
MediaPositions ==
    {i \in 1 .. Len(tmdbResponse.results) :
        tmdbResponse.results[i].media_type \in {"movie", "tv"}}

\* C21 (first movie or tv result): on a successful answer searchTMDB returns
\* code 200 with the first result, in the order of the answer, whose media
\* type is movie or tv, and a null result (code 404) when there is none; the
\* result is non-null exactly when the code is 200; every other outcome is a
\* returned code with a null result.
C21_FirstMediaResult ==
    tpc = "done" =>
        /\ tmdbResult.code = 200 <=> tmdbResult.result # NoResult
        /\ (tmdbKey /\ tmdbResponse.kind = "ok" /\ MediaPositions # {}) =>
               /\ tmdbResult.code = 200
               /\ \E i \in MediaPositions :
                     /\ \A j \in MediaPositions : i <= j
                     /\ tmdbResult.result = tmdbResponse.results[i]
        /\ (tmdbKey /\ tmdbResponse.kind = "ok" /\ MediaPositions = {}) =>
               tmdbResult = [code |-> 404, result |-> NoResult]
        /\ (~tmdbKey \/ tmdbResponse.kind # "ok") =>
               /\ tmdbResult.result = NoResult
               /\ tmdbResult.code # 200

C21_Witness ==
    /\ tpc = "done"
    /\ Len(tmdbResponse.results) = 3
    /\ tmdbResponse.results[1].media_type = "person"
    /\ tmdbResponse.results[2].media_type = "tv"
    /\ tmdbResponse.results[3].media_type = "movie"
    /\ tmdbResult.code = 200
    /\ tmdbResult.result.id = 2

\* The folders of the current run whose search gave no match.
UnmatchedNow ==
    {searchLog[i].name : i \in {j \in 1 .. Len(searchLog) : ~searchLog[j].matched}}

\* C22 (an unmatched folder stays unseen): a folder whose search failed or
\* gave no match has no record in the run's document, and the next run whose
\* listing still has it searches it again and counts it in new or errors.
C22_UnmatchedSearchedAgain ==
    /\ (metaInfo # NoRef /\ rpc # "idle") =>
           UnmatchedNow \cap Keys(heap[metaInfo].folders) = {}
    /\ LoopOver =>
           /\ (unmatched \cap DirNames(listResponse)) \subseteq Range(LogNames)
           /\ newCount + errorCount = Len(searchLog)

\* ------------------------------------------------ termination (SpecLive)
\* C23 (every run terminates): when every awaited call returns or fails, a
\* run that has started reaches its success response (after its commit) or
\* its failure response;
\* no listed directory is searched twice, and the loop position only grows.
C23_RunTerminates ==
    /\ [](\A i, j \in 1 .. Len(Issued) : i # j => Issued[i] # Issued[j])
    /\ [](Len(searchLog) <= Len(Dirs(listResponse)) /\ idx <= Len(Dirs(listResponse)) + 1)
    /\ (InFlight ~> RunEnded)

C23_Witness ==
    /\ rpc = "done"
    /\ runs = 2
    /\ Len(searchLog) = 2
    /\ newCount = 1 /\ errorCount = 1

====
